---- MODULE Spec2Model ----
(***************************************************************************)
(* zipline/data/bundles/sqldata.py: the five read operations of the SQL    *)
(* data bundle over the tables Issue, SpecialTreatment, StockDaily and     *)
(* Adjustment, each run inside `with session_scope() as sess:`.            *)
(*                                                                         *)
(* Dates are day numbers; a date-like argument is a timestamp (a day and a *)
(* time of day) that pd.Timestamp(x).date() cuts to its day.  A table is a *)
(* set of rows, keyed as the store keys it; a query result is the sequence *)
(* of its rows in the store's key order.  The price and amount columns are *)
(* carried through by the code unchanged and are not modelled: a result    *)
(* holds its column names and, per row, the fields the code works on.      *)
(***************************************************************************)
EXTENDS Integers, Sequences, FiniteSets

\* ---------------------------------------------------------------- bounds
MaxDate == 1
MaxBars == 2
MaxEvents == 3
MaxAdjustments == 2

\* ---------------------------------------------------------------- domains
Null == -1
Dates == 0..MaxDate
TimesOfDay == {"00:00", "15:00"}
Timestamps == [day : Dates, time : TimesOfDay]

SZ1 == <<"0", "0", "0", "0", "0", "1">>
SH1 == <<"6", "0", "0", "0", "0", "0">>
SymbolOrder == <<SZ1, SH1>>
Symbols == {SymbolOrder[i] : i \in 1..Len(SymbolOrder)}
Names == {"A", "B"}
SpecialTreatmentType == {"delisting", "PT", "ST"}

DAILY_COLS ==
  <<"symbol", "date", "open", "high", "low", "close", "prev_close",
    "change_pct", "volume", "amount", "turnover", "cmv", "tmv">>
ADJUSTMENT_COLS ==
  <<"symbol", "date", "amount", "ratio", "record_date", "pay_date",
    "listing_date">>
StartCols == <<"symbol", "start_date">>
EndCols == <<"symbol", "end_date">>
MetadataCols == <<"symbol", "asset_name", "first_traded", "last_traded">>

\* ---------------------------------------------------------------- helpers
SetMax(S) == CHOOSE x \in S : \A y \in S : y <= x
SetMin(S) == CHOOSE x \in S : \A y \in S : x <= y
Rank(code) == CHOOSE i \in 1..Len(SymbolOrder) : SymbolOrder[i] = code

\* pd.Timestamp(x).date(): the time of day is dropped.
ToDate(ts) == ts.day

get_exchange(code) == IF code[1] \in {"0", "3"} THEN "SZSE" ELSE "SSE"

\* The rows of a keyed table in the store's order: by code, then by date.
Before(r, s) == Rank(r.code) < Rank(s.code)
                  \/ (r.code = s.code /\ r.date < s.date)
RECURSIVE StoreOrder(_)
StoreOrder(rows) ==
  IF rows = {} THEN <<>>
  ELSE LET first == CHOOSE r \in rows : \A s \in rows \ {r} : Before(r, s)
       IN  <<first>> \o StoreOrder(rows \ {first})

SeqToSet(s) == {s[i] : i \in 1..Len(s)}

\* ---------------------------------------------------------------- tables
IssueRows == [code : Symbols, date : Dates \cup {Null}]
EventRows == [code : Symbols, date : Dates, treatment : SpecialTreatmentType]
BarRows == [code : Symbols, date : Dates, name : Names]
AdjustmentRows == [code : Symbols, date : Dates]

KeyedByCode(t) == \A r, s \in t : r.code = s.code => r = s
KeyedByCodeDate(t) ==
  \A r, s \in t : (r.code = s.code /\ r.date = s.date) => r = s

IssueTables == {t \in SUBSET IssueRows : KeyedByCode(t)}
EventTables ==
  {t \in SUBSET EventRows : Cardinality(t) <= MaxEvents /\ KeyedByCodeDate(t)}
BarTables ==
  {t \in SUBSET BarRows : Cardinality(t) <= MaxBars /\ KeyedByCodeDate(t)}
AdjustmentTables ==
  {t \in SUBSET AdjustmentRows : Cardinality(t) <= MaxAdjustments}

AtMostOne(S) == {{}} \cup {{x} : x \in S}

VARIABLES Issue, SpecialTreatment, StockDaily, Adjustment,
          stack, sessions, ret

store == <<Issue, SpecialTreatment, StockDaily, Adjustment>>
vars == <<Issue, SpecialTreatment, StockDaily, Adjustment, stack, sessions, ret>>

\* ---------------------------------------------------------------- frames
\* A table as pandas holds it: the column labels and the rows, each row a
\* tuple in column order.
NoDf == [columns |-> <<>>, rows |-> <<>>]
NoRet == [op |-> "none", args |-> <<>>, outcome |-> "none", df |-> NoDf]
Frame(op, args) ==
  [op |-> op, args |-> args, pc |-> "query",
   start |-> IF Len(args) = 3 THEN ToDate(args[2]) ELSE Null,
   end |-> IF Len(args) = 3 THEN ToDate(args[3]) ELSE Null,
   df |-> NoDf]

Top == stack[Len(stack)]
Pop == SubSeq(stack, 1, Len(stack) - 1)

\* pd.DataFrame.from_records(records): no record gives a table with no
\* column at all; otherwise the columns are labelled by position.
FromRecords(records, width) ==
  [columns |-> IF records = <<>> THEN <<>> ELSE [i \in 1..width |-> i - 1],
   rows |-> records]

\* df.columns = names: pandas raises ValueError on a length mismatch.
SetColumns(df, names) ==
  IF Len(df.columns) = Len(names)
  THEN [outcome |-> "ok", df |-> [columns |-> names, rows |-> df.rows]]
  ELSE [outcome |-> "ValueError", df |-> NoDf]

Col(df, name) == CHOOSE i \in 1..Len(df.columns) : df.columns[i] = name

\* `with session_scope() as sess:` entered by the frame at depth d, and left
\* by it: the context manager's exit runs on return and on raise alike.
SessionEnter(open, d) == open \cup {d}
SessionExitOnReturn(open, d, outcome) ==
  IF outcome = "ok" THEN open \ {d} ELSE open
SessionExit(open, d, outcome) == open \ {d}

\* ---------------------------------------------------------------- queries
Codes(t) == {r.code : r \in t}
Group(t, code) == {r \in t : r.code = code}
CodeOrder(codes) ==
  LET idx == SelectSeq([i \in 1..Len(SymbolOrder) |-> i],
                       LAMBDA i : SymbolOrder[i] \in codes)
  IN  [k \in 1..Len(idx) |-> SymbolOrder[idx[k]]]

\* GROUP BY code with a column that is neither grouped nor aggregated: the
\* store takes that column from one row of the group, of its choosing.
Picks(t) == {f \in [Codes(t) -> t] : \A c \in Codes(t) : f[c].code = c}

Qualifying == {"delisting", "PT"}

\* sess.query(Issue.code, Issue.A004).filter(A004 IS NOT NULL)
StartDatesQuery ==
  LET rows == StoreOrder({r \in Issue : r.date # Null})
  IN  [i \in 1..Len(rows) |-> <<rows[i].code, rows[i].date>>]

EndDatesQueryNoHaving(pick) ==
  LET kept == CodeOrder(Codes(SpecialTreatment))
  IN  [i \in 1..Len(kept) |->
         <<kept[i],
           SetMax({r.date : r \in Group(SpecialTreatment, kept[i])})>>]
\* sess.query(code, max(date)).group_by(code).having(treatment IN (...))
EndDatesQuery(pick) ==
  LET kept == SelectSeq(CodeOrder(Codes(SpecialTreatment)),
                        LAMBDA c : pick[c].treatment \in Qualifying)
  IN  [i \in 1..Len(kept) |->
         <<kept[i],
           SetMax({r.date : r \in Group(SpecialTreatment, kept[i])})>>]

\* sess.query(code, name, min(date), max(date)).group_by(code)
MetadataQuery(pick) ==
  LET codes == CodeOrder(Codes(StockDaily))
  IN  [i \in 1..Len(codes) |->
         <<codes[i], pick[codes[i]].name,
           SetMin({r.date : r \in Group(StockDaily, codes[i])}),
           SetMax({r.date : r \in Group(StockDaily, codes[i])})>>]

BetweenHalfOpen(d, start, end) == start <= d /\ d < end
\* StockDaily.date.between(start, end), inclusive at both ends
Between(d, start, end) == start <= d /\ d <= end

EquityQuery(code, start, end) ==
  LET rows == StoreOrder({r \in StockDaily :
                            r.code = code /\ Between(r.date, start, end)})
  IN  [i \in 1..Len(rows) |-> <<rows[i].code, rows[i].date>>]

AdjustmentsQuery(code, start, end) ==
  LET rows == StoreOrder({r \in Adjustment :
                            r.code = code /\ Between(r.date, start, end)})
  IN  [i \in 1..Len(rows) |-> <<rows[i].code, rows[i].date>>]

AutoClose(last_traded) == last_traded + 1
DeriveFromFirstTraded(df) ==
  [columns |-> df.columns \o <<"exchange", "auto_close_date">>,
   rows |-> [i \in 1..Len(df.rows) |->
               df.rows[i] \o <<get_exchange(df.rows[i][Col(df, "symbol")]),
                               AutoClose(df.rows[i][Col(df, "first_traded")])>>]]
\* df['exchange'] = ...; df['auto_close_date'] = last_traded + 1 day
Derive(df) ==
  [columns |-> df.columns \o <<"exchange", "auto_close_date">>,
   rows |-> [i \in 1..Len(df.rows) |->
               df.rows[i] \o <<get_exchange(df.rows[i][Col(df, "symbol")]),
                               AutoClose(df.rows[i][Col(df, "last_traded")])>>]]

\* left.merge(right, 'left', on='symbol') for a two-column right table: the
\* left rows in order, each once per right row of its symbol, or once with a
\* null when the right table has none.
RECURSIVE MergeRows(_, _, _)
MergeRows(left, right, k) ==
  IF left = <<>> THEN <<>>
  ELSE LET l == Head(left)
           m == SelectSeq(right, LAMBDA r : r[1] = l[k])
           out == IF m = <<>> THEN <<l \o <<Null>>>>
                  ELSE [i \in 1..Len(m) |-> l \o <<m[i][2]>>]
       IN  out \o MergeRows(Tail(left), right, k)

MergeLeft(left, right) ==
  [columns |-> left.columns \o <<right.columns[2]>>,
   rows |-> MergeRows(left.rows, right.rows, Col(left, "symbol"))]

\* ---------------------------------------------------------------- actions
\* The top frame leaves its `with` block and returns or raises to its caller.
Exit(outcome, df) ==
  /\ stack' = Pop
  /\ sessions' = SessionExit(sessions, Len(stack), outcome)
  /\ ret' = [op |-> Top.op, args |-> Top.args, outcome |-> outcome, df |-> df]

\* A call from outside: the arguments are normalised, the session is opened.
Enter(op, args) ==
  /\ stack = <<>>
  /\ ret = NoRet
  /\ stack' = <<Frame(op, args)>>
  /\ sessions' = SessionEnter(sessions, 1)
  /\ ret' = NoRet
  /\ UNCHANGED store

\* The caller takes what the call returned or raised; the module keeps
\* nothing of it.
Return ==
  /\ stack = <<>>
  /\ ret # NoRet
  /\ ret' = NoRet
  /\ UNCHANGED <<store, stack, sessions>>

Running(op, pc) == stack # <<>> /\ Top.op = op /\ Top.pc = pc

Call_get_start_dates == Enter("get_start_dates", <<>>)

get_start_dates ==
  /\ Running("get_start_dates", "query")
  /\ \/ Exit("QueryError", NoDf)
     \/ LET r == SetColumns(FromRecords(StartDatesQuery, 2), StartCols)
        IN  Exit(r.outcome, r.df)
  /\ UNCHANGED store

Call_get_end_dates == Enter("get_end_dates", <<>>)

get_end_dates ==
  /\ Running("get_end_dates", "query")
  /\ \/ Exit("QueryError", NoDf)
     \/ \E pick \in Picks(SpecialTreatment) :
          LET r == SetColumns(FromRecords(EndDatesQuery(pick), 2), EndCols)
          IN  Exit(r.outcome, r.df)
  /\ UNCHANGED store

Call_gen_asset_metadata == Enter("gen_asset_metadata", <<>>)

\* A call made inside the caller's `with` block: the callee opens a session
\* of its own while the caller's stays open.
CallNested(op, caller) ==
  /\ stack' = Append([stack EXCEPT ![Len(stack)] = caller], Frame(op, <<>>))
  /\ sessions' = SessionEnter(sessions, Len(stack) + 1)
  /\ ret' = NoRet

\* Lines 101-114: the grouped query, the four column names, the two derived
\* columns, then the call of get_start_dates.
gen_asset_metadata_query ==
  /\ Running("gen_asset_metadata", "query")
  /\ \/ Exit("QueryError", NoDf)
     \/ \E pick \in Picks(StockDaily) :
          LET r == SetColumns(FromRecords(MetadataQuery(pick), 4),
                              MetadataCols)
          IN  IF r.outcome # "ok"
              THEN Exit(r.outcome, NoDf)
              ELSE CallNested("get_start_dates",
                              [Top EXCEPT !.pc = "start_dates",
                                          !.df = Derive(r.df)])
  /\ UNCHANGED store

\* Lines 114-115: get_start_dates has returned or raised; on a raise the
\* exception leaves the `with` block, otherwise get_end_dates is called.
gen_asset_metadata_start_dates ==
  /\ Running("gen_asset_metadata", "start_dates")
  /\ ret.op = "get_start_dates"
  /\ IF ret.outcome # "ok"
     THEN Exit(ret.outcome, NoDf)
     ELSE CallNested("get_end_dates",
                     [Top EXCEPT !.pc = "end_dates",
                                 !.df = MergeLeft(Top.df, ret.df)])
  /\ UNCHANGED store

\* Lines 115-120: get_end_dates has returned or raised; the merged table is
\* returned.
gen_asset_metadata_end_dates ==
  /\ Running("gen_asset_metadata", "end_dates")
  /\ ret.op = "get_end_dates"
  /\ IF ret.outcome # "ok"
     THEN Exit(ret.outcome, NoDf)
     ELSE Exit("ok", MergeLeft(Top.df, ret.df))
  /\ UNCHANGED store

Call_fetch_single_equity ==
  \E code \in Symbols, start, end \in Timestamps :
    Enter("fetch_single_equity", <<code, start, end>>)

fetch_single_equity ==
  /\ Running("fetch_single_equity", "query")
  /\ \/ Exit("QueryError", NoDf)
     \/ LET q == EquityQuery(Top.args[1], Top.start, Top.end)
            r == SetColumns(FromRecords(q, Len(DAILY_COLS)), DAILY_COLS)
        IN  Exit(r.outcome, r.df)
  /\ UNCHANGED store

BuildAdjustmentsAlwaysNamed(df) == SetColumns(df, ADJUSTMENT_COLS)
\* Lines 228-233: an empty table is returned as it is, without the column
\* names; a populated one is given the seven names.
BuildAdjustments(df) ==
  IF df.rows = <<>> THEN [outcome |-> "ok", df |-> df]
  ELSE SetColumns(df, ADJUSTMENT_COLS)

Call_fetch_single_quity_adjustments ==
  \E code \in Symbols, start, end \in Timestamps :
    Enter("fetch_single_quity_adjustments", <<code, start, end>>)

fetch_single_quity_adjustments ==
  /\ Running("fetch_single_quity_adjustments", "query")
  /\ \/ Exit("QueryError", NoDf)
     \/ LET q == AdjustmentsQuery(Top.args[1], Top.start, Top.end)
            r == BuildAdjustments(FromRecords(q, Len(ADJUSTMENT_COLS)))
        IN  Exit(r.outcome, r.df)
  /\ UNCHANGED store

\* ---------------------------------------------------------------- specifications
Idle == stack = <<>> /\ sessions = {} /\ ret = NoRet

\* get_start_dates and get_end_dates over every Issue and SpecialTreatment
\* table within the bounds.
InitEndDates ==
  /\ Issue \in IssueTables
  /\ SpecialTreatment \in EventTables
  /\ StockDaily = {}
  /\ Adjustment = {}
  /\ Idle

NextEndDates ==
  \/ Return
  \/ Call_get_start_dates
  \/ get_start_dates
  \/ Call_get_end_dates
  \/ get_end_dates

SpecEndDates == InitEndDates /\ [][NextEndDates]_vars

\* gen_asset_metadata, with the two calls it makes, over every StockDaily
\* and Issue table within the bounds and a SpecialTreatment table of one
\* event at most (get_end_dates has a specification of its own).
InitMetadata ==
  /\ Issue \in IssueTables
  /\ SpecialTreatment \in AtMostOne(EventRows)
  /\ StockDaily \in BarTables
  /\ Adjustment = {}
  /\ Idle

NextMetadata ==
  \/ Return
  \/ Call_gen_asset_metadata
  \/ gen_asset_metadata_query
  \/ get_start_dates
  \/ gen_asset_metadata_start_dates
  \/ get_end_dates
  \/ gen_asset_metadata_end_dates

SpecMetadata == InitMetadata /\ [][NextMetadata]_vars

\* fetch_single_equity over every StockDaily table and every argument.
InitEquity ==
  /\ Issue = {}
  /\ SpecialTreatment = {}
  /\ StockDaily \in BarTables
  /\ Adjustment = {}
  /\ Idle

NextEquity ==
  \/ Return
  \/ Call_fetch_single_equity
  \/ fetch_single_equity

SpecEquity == InitEquity /\ [][NextEquity]_vars

\* fetch_single_quity_adjustments over every Adjustment table and argument.
InitAdjustments ==
  /\ Issue = {}
  /\ SpecialTreatment = {}
  /\ StockDaily = {}
  /\ Adjustment \in AdjustmentTables
  /\ Idle

NextAdjustments ==
  \/ Return
  \/ Call_fetch_single_quity_adjustments
  \/ fetch_single_quity_adjustments

SpecAdjustments == InitAdjustments /\ [][NextAdjustments]_vars

\* The five operations together, over stores whose tables each hold no row
\* or a single row: enough for every operation to return a populated table,
\* to return an empty one and to raise.  No operation reads Adjustment
\* together with another table, so Adjustment is populated on its own.

Init ==
  /\ Issue \in AtMostOne(IssueRows)
  /\ SpecialTreatment \in AtMostOne(EventRows)
  /\ StockDaily \in AtMostOne(BarRows)
  /\ Adjustment \in AtMostOne(AdjustmentRows)
  /\ Adjustment = {} \/ (Issue = {} /\ SpecialTreatment = {} /\ StockDaily = {})
  /\ Idle

Next ==
  \/ Return
  \/ Call_get_start_dates
  \/ get_start_dates
  \/ Call_get_end_dates
  \/ get_end_dates
  \/ Call_gen_asset_metadata
  \/ gen_asset_metadata_query
  \/ gen_asset_metadata_start_dates
  \/ gen_asset_metadata_end_dates
  \/ Call_fetch_single_equity
  \/ fetch_single_equity
  \/ Call_fetch_single_quity_adjustments
  \/ fetch_single_quity_adjustments

Spec == Init /\ [][Next]_vars

\* ---------------------------------------------------------------- properties
Done(op) == stack = <<>> /\ ret.op = op
Returned(op) == Done(op) /\ ret.outcome = "ok"
\* The call is over and its queries were answered by the store.
Answered(op) == Done(op) /\ ret.outcome # "QueryError"

Field(i, name) == ret.df.rows[i][Col(ret.df, name)]
RowsOf(code) == {i \in 1..Len(ret.df.rows) : ret.df.rows[i][1] = code}

HasQualifying(code) ==
  \E r \in Group(SpecialTreatment, code) : r.treatment \in Qualifying
GroupMax(t, code) == SetMax({r.date : r \in Group(t, code)})
GroupMin(t, code) == SetMin({r.date : r \in Group(t, code)})

MatchingBars ==
  {r \in StockDaily : /\ r.code = ret.args[1]
                      /\ ToDate(ret.args[2]) <= r.date
                      /\ r.date <= ToDate(ret.args[3])}
MatchingAdjustments ==
  {r \in Adjustment : /\ r.code = ret.args[1]
                      /\ ToDate(ret.args[2]) <= r.date
                      /\ r.date <= ToDate(ret.args[3])}

\* C1: when the query of get_start_dates, get_end_dates or
\* fetch_single_equity matches no row, the operation returns an empty
\* sequence and does not raise.
C1_EmptyResultIsNotAnError ==
  /\ (Answered("get_start_dates") /\ StartDatesQuery = <<>>)
       => (ret.outcome = "ok" /\ ret.df.rows = <<>>)
  /\ (Answered("get_end_dates") /\ ~ \E c \in Symbols : HasQualifying(c))
       => (ret.outcome = "ok" /\ ret.df.rows = <<>>)
  /\ (Answered("fetch_single_equity") /\ MatchingBars = {})
       => (ret.outcome = "ok" /\ ret.df.rows = <<>>)

\* C2: a session never outlives the call that opened it: once a call has
\* returned or raised, at any depth, its session is closed, and when the
\* outermost call is over no session is open.
C2_SessionsReleased ==
  /\ \A d \in sessions : d <= Len(stack)
  /\ stack = <<>> => sessions = {}

\* gen_asset_metadata has raised out of its `with` block because a table
\* could not be built.
C2_Witness ==
  /\ Done("gen_asset_metadata")
  /\ ret.outcome = "ValueError"
  /\ sessions = {}

\* C3: every symbol get_end_dates returns has at least one delisting or PT
\* event.
C3_EndDatesOnlyQualifying ==
  Returned("get_end_dates") =>
    \A i \in 1..Len(ret.df.rows) : HasQualifying(Field(i, "symbol"))

\* get_end_dates has returned a symbol whose events mix qualifying and
\* other kinds.
C3_Witness ==
  /\ Returned("get_end_dates")
  /\ \E i \in 1..Len(ret.df.rows) :
       \E r \in Group(SpecialTreatment, Field(i, "symbol")) :
         r.treatment \notin Qualifying

\* C4: every symbol with at least one delisting or PT event has exactly one
\* row in the result of get_end_dates, whose end_date is the latest event
\* date of the symbol.
C4_EndDatesKeepsQualifying ==
  Returned("get_end_dates") =>
    \A c \in Symbols :
      HasQualifying(c) =>
        /\ Cardinality(RowsOf(c)) = 1
        /\ \A i \in RowsOf(c) :
             Field(i, "end_date") = GroupMax(SpecialTreatment, c)

\* C5: whatever Issue and SpecialTreatment hold, gen_asset_metadata
\* returns, for every symbol of StockDaily, the listing date of Issue or null
\* when Issue has none, and the latest event date or null, the date only for
\* a symbol with a qualifying event.
C5_LeftJoin ==
  (Answered("gen_asset_metadata") /\ StockDaily # {}) =>
    /\ ret.outcome = "ok"
    /\ \A c \in Codes(StockDaily) :
         /\ RowsOf(c) # {}
         /\ \A i \in RowsOf(c) :
              /\ Field(i, "start_date") \in
                   IF \E r \in Issue : r.code = c /\ r.date # Null
                   THEN {r.date : r \in Group(Issue, c)}
                   ELSE {Null}
              /\ Field(i, "end_date") \in
                   IF HasQualifying(c)
                   THEN {Null, GroupMax(SpecialTreatment, c)}
                   ELSE {Null}

\* C6: gen_asset_metadata returns as many rows as StockDaily has symbols,
\* whatever Issue and SpecialTreatment hold.
C6_Cardinality ==
  (Answered("gen_asset_metadata") /\ StockDaily # {}) =>
    /\ ret.outcome = "ok"
    /\ Len(ret.df.rows) = Cardinality(Codes(StockDaily))

\* C7: the rows fetch_single_equity returns are the StockDaily rows of the
\* symbol dated from the day of start to the day of end, both included,
\* each once.
C7_EquityRows ==
  Answered("fetch_single_equity") =>
    /\ SeqToSet(ret.df.rows) = {<<r.code, r.date>> : r \in MatchingBars}
    /\ Len(ret.df.rows) = Cardinality(MatchingBars)

\* fetch_single_equity has returned a row dated the day of start and a row
\* dated the day of end, for a start given with a time of day.
C7_Witness ==
  /\ Returned("fetch_single_equity")
  /\ ret.args[2].time # "00:00"
  /\ ToDate(ret.args[2]) < ToDate(ret.args[3])
  /\ \E i, j \in 1..Len(ret.df.rows) :
       /\ Field(i, "date") = ToDate(ret.args[2])
       /\ Field(j, "date") = ToDate(ret.args[3])

\* C8: fetch_single_quity_adjustments returns, when no Adjustment row
\* matches, a table with no row and no column and does not raise; otherwise
\* the seven columns and one row per matching Adjustment row.
C8_Adjustments ==
  Answered("fetch_single_quity_adjustments") =>
    /\ ret.outcome = "ok"
    /\ IF MatchingAdjustments = {}
       THEN ret.df.rows = <<>> /\ ret.df.columns = <<>>
       ELSE /\ ret.df.columns = ADJUSTMENT_COLS
            /\ Len(ret.df.columns) = 7
            /\ Len(ret.df.rows) = Cardinality(MatchingAdjustments)
            /\ SeqToSet(ret.df.rows) =
                 {<<r.code, r.date>> : r \in MatchingAdjustments}

\* fetch_single_quity_adjustments has returned the empty table from a
\* store that holds adjustments, none of them matching.
C8_Witness ==
  /\ Returned("fetch_single_quity_adjustments")
  /\ Adjustment # {}
  /\ ret.df = NoDf

\* C9: in every row gen_asset_metadata returns, first_traded and
\* last_traded are the earliest and latest StockDaily date of the symbol
\* and auto_close_date is the day after last_traded, never null.
C9_AutoClose ==
  Returned("gen_asset_metadata") =>
    \A i \in 1..Len(ret.df.rows) :
      /\ Field(i, "first_traded") = GroupMin(StockDaily, Field(i, "symbol"))
      /\ Field(i, "last_traded") = GroupMax(StockDaily, Field(i, "symbol"))
      /\ Field(i, "auto_close_date") # Null
      /\ Field(i, "auto_close_date") = Field(i, "last_traded") + 1
      /\ Field(i, "first_traded") <= Field(i, "last_traded")
      /\ Field(i, "last_traded") < Field(i, "auto_close_date")

\* gen_asset_metadata has returned a symbol traded on more than one day.
C9_Witness ==
  /\ Returned("gen_asset_metadata")
  /\ \E i \in 1..Len(ret.df.rows) :
       Field(i, "first_traded") < Field(i, "last_traded")
====
